---- MODULE Spec2Model ----
(***************************************************************************)
(* Model of the useSupabaseData hook (DataSyncStore): six in-memory       *)
(* collections and a loading flag, fetchData (refresh) and five mutators, *)
(* run against a remote store whose requests are answered asynchronously, *)
(* and of the AuthProvider (SessionContext): the user value, the initial  *)
(* session read and the subscription to session-change events.            *)
(*                                                                         *)
(* A remote request takes two steps: the remote evaluates it (RemoteRead, *)
(* RemoteWrite) and, later, the awaiting function resumes with the answer *)
(* (AfterRead, AfterWrite).  Everything a function does between two       *)
(* awaits is one step, as in the single-threaded event loop.              *)
(***************************************************************************)
EXTENDS Integers, Sequences, FiniteSets, TLC

\* Number of calls made in one run, the fetchData of the mount effect included.
MaxCalls == 3

\* The calls in flight: at most two calls overlap (the mount effect's and a UI
\* handler's, or two UI handlers'); a slot is free again once its call is done.
Slots == {1, 2}

\* Number of requests the remote answers with an error in one run.
MaxFailures == 1

\* Number of times the remote session changes in one run.
MaxEvents == 3

VARIABLES
    registrations,   \* useState<Registration[]>([])
    categories,      \* useState<Category[]>([])
    panchayaths,     \* useState<Panchayath[]>([])
    announcements,   \* useState<Announcement[]>([])
    photoGallery,    \* useState<PhotoGalleryItem[]>([])
    notifications,   \* useState<PushNotification[]>([])
    loading,         \* useState(true)
    remote,          \* the remote store: one table per collection
    clock,           \* time, for approved_at and submitted_at
    started,         \* number of calls made so far
    failures,        \* number of requests answered with an error so far
    lastFetch,       \* the fetchData call begun last: begun with no other
                     \* in flight (clean), and how it ended (state)
    lastWrite,       \* the fetchData call of the write answered last: its state
    call,            \* per slot, the call of fetchData or of a mutator it holds
    user,            \* useState(null) of AuthProvider
    session,         \* the remote's current session
    provider,        \* AuthProvider: not mounted yet, mounted, or torn down
    getSession,      \* the promise of supabase.auth.getSession()
    subscription,    \* listener.subscription
    events,          \* session-change events on their way to the listener
    setCalls,        \* number of setUser calls so far
    issued           \* number of session changes so far

storeVars == <<registrations, categories, panchayaths, announcements, photoGallery,
               notifications, loading, remote, clock, started, failures, lastFetch,
               lastWrite, call>>

authVars == <<user, session, provider, getSession, subscription, events,
              setCalls, issued>>

vars == <<storeVars, authVars>>

\* The six collections in the order fetchData reads them.
Collections == <<categories, panchayaths, announcements, photoGallery,
                 registrations, notifications>>

\* The local state: the collections and the loading flag.
Local == <<categories, panchayaths, announcements, photoGallery,
           registrations, notifications, loading>>

NumReads == 6

----------------------------------------------------------------------------
\* Records

ValidAudiences == {"all", "category", "panchayath", "admin"}

Mutators == {"createRegistration", "updateRegistrationStatus", "deleteRegistration",
             "updateCategoryImage", "updateCategoryFees"}

BoolMutators == Mutators \ {"createRegistration"}

\* "none" stands for an absent optional field; id 0 for no record.
NoReg == [id |-> 0, full_name |-> "none", status |-> "none", submitted_at |-> 0,
          approved_at |-> 0, unique_id |-> "none"]

\* Registration inputs the UI submits (Omit<Registration, id | submitted_at | user_id>).
RegInputs == {[full_name |-> "n2", status |-> "pending"]}

InitCategories ==
    << [name |-> "c1", actual_fee |-> 2, offer_fee |-> 2, has_offer |-> FALSE, image_url |-> "none"],
       [name |-> "c2", actual_fee |-> 3, offer_fee |-> 1, has_offer |-> TRUE, image_url |-> "i0"] >>

InitPanchayaths == << [id |-> 1, malayalam_name |-> "p1"], [id |-> 2, malayalam_name |-> "p2"] >>

InitAnnouncements ==
    << [id |-> 2, is_active |-> FALSE, created_at |-> 0],
       [id |-> 1, is_active |-> TRUE, created_at |-> 0] >>

InitGallery == << [id |-> 1, title |-> "g1"] >>

InitRegistrations ==
    << [id |-> 1, full_name |-> "n1", status |-> "pending", submitted_at |-> 0,
        approved_at |-> 0, unique_id |-> "none"] >>

\* The push_notifications table holds a malformed record among valid ones.
InitNotifications ==
    << [id |-> 3, target_audience |-> "everyone"],
       [id |-> 2, target_audience |-> "admin"],
       [id |-> 1, target_audience |-> "all"] >>

NoSnap == [categories |-> <<>>, panchayaths |-> <<>>, announcements |-> <<>>,
           photo_gallery |-> <<>>, registrations |-> <<>>, push_notifications |-> <<>>,
           nextId |-> 0]

NoBefore == <<<<>>, <<>>, <<>>, <<>>, <<>>, <<>>, FALSE>>

\* Arguments of a call, one record for all operations (unused fields keep NoArgs').
NoArgs == [data |-> [full_name |-> "none", status |-> "none"], id |-> 0,
           status |-> "none", uniqueId |-> "none", categoryName |-> "none",
           imageUrl |-> "none", actualFee |-> 0, offerFee |-> 0, hasOffer |-> FALSE]

ArgsOf(op) ==
    CASE op = "fetchData" -> {NoArgs}
      [] op = "createRegistration" -> {[NoArgs EXCEPT !.data = d] : d \in RegInputs}
      [] op = "updateRegistrationStatus" ->
            {[NoArgs EXCEPT !.id = 1, !.status = "approved", !.uniqueId = "U123"],
             [NoArgs EXCEPT !.id = 1, !.status = "rejected"],
             [NoArgs EXCEPT !.id = 1, !.status = "approved", !.uniqueId = ""]}
      [] op = "deleteRegistration" -> {[NoArgs EXCEPT !.id = 1]}
      [] op = "updateCategoryImage" ->
            {[NoArgs EXCEPT !.categoryName = "c1", !.imageUrl = "i1"]}
      [] op = "updateCategoryFees" ->
            {[NoArgs EXCEPT !.categoryName = "c1", !.actualFee = 5, !.offerFee = 4,
                            !.hasOffer = TRUE]}

NoResp == [ok |-> FALSE, data |-> <<>>]

\* What a call returned: kind is pending (still running), undefined (fetchData),
\* true, false, null, record (then rec is the record) or raised.
Ret(kind, rec) == [kind |-> kind, rec |-> rec]

----------------------------------------------------------------------------
\* The remote store (the query/mutation client of the hosted platform)

\* Tables with the gallery read before the announcements.
TablesGalleryFirst == <<"categories", "panchayaths", "photo_gallery", "announcements",
                        "registrations", "push_notifications">>

Tables == <<"categories", "panchayaths", "announcements", "photo_gallery",
            "registrations", "push_notifications">>

\* The rows of s whose column col is, or is not, val, in s's order.
Matching(s, col, val) == SelectSeq(s, LAMBDA row : row[col] = val)
NotMatching(s, col, val) == SelectSeq(s, LAMBDA row : row[col] # val)

\* Query with the is_active filter of the announcements query left out.
QueryUnfiltered(k, r) == r[Tables[k]]

\* The select query of the k-th read of fetchData, evaluated on store r.  The
\* tables are kept in the order of the query's order(...) clause.
Query(k, r) ==
    IF k = 3 THEN Matching(r.announcements, "is_active", TRUE)
    ELSE r[Tables[k]]

\* Truthy with only an absent value taken for false.
TruthyIfDefined(v) == v # "none"

\* if (uniqueId): an absent and an empty string are both false.
Truthy(v) == v \notin {"none", ""}

\* The write request a mutator sends: verb, table, body (the row to insert or
\* the patch of an update) and the eq(col, val) filter.  now is new Date().
WriteRequest(op, args, now) ==
    CASE op = "createRegistration" ->
            [verb |-> "insert", table |-> "registrations", body |-> args.data,
             col |-> "none", val |-> 0]
      [] op = "updateRegistrationStatus" ->
            [verb |-> "update", table |-> "registrations",
             body |-> IF Truthy(args.uniqueId)
                      THEN [status |-> args.status, approved_at |-> now,
                            unique_id |-> args.uniqueId]
                      ELSE [status |-> args.status, approved_at |-> now],
             col |-> "id", val |-> args.id]
      [] op = "deleteRegistration" ->
            [verb |-> "delete", table |-> "registrations", body |-> <<>>,
             col |-> "id", val |-> args.id]
      [] op = "updateCategoryImage" ->
            [verb |-> "update", table |-> "categories",
             body |-> [image_url |-> args.imageUrl],
             col |-> "name", val |-> args.categoryName]
      [] op = "updateCategoryFees" ->
            [verb |-> "update", table |-> "categories",
             body |-> [actual_fee |-> args.actualFee, offer_fee |-> args.offerFee,
                       has_offer |-> args.hasOffer],
             col |-> "name", val |-> args.categoryName]

\* Patched with the has_offer field of the patch not written.
PatchedNoFlag(row, patch) ==
    [f \in DOMAIN row |-> IF f \in DOMAIN patch \ {"has_offer"} THEN patch[f] ELSE row[f]]

\* A row with the fields of patch overwritten.
Patched(row, patch) ==
    [f \in DOMAIN row |-> IF f \in DOMAIN patch THEN patch[f] ELSE row[f]]

\* The row the remote stores for an inserted registration: the input plus the
\* server-assigned id and timestamp and the defaults of the absent fields.
Inserted(body, r, now) ==
    Patched([NoReg EXCEPT !.id = r.nextId, !.submitted_at = now], body)

\* The store after the remote has applied request req at time now.
Applied(req, r, now) ==
    CASE req.verb = "insert" ->
            [r EXCEPT ![req.table] = <<Inserted(req.body, r, now)>> \o @,
                      !.nextId = @ + 1]
      [] req.verb = "update" ->
            [r EXCEPT ![req.table] =
                [i \in DOMAIN @ |-> IF @[i][req.col] = req.val
                                    THEN Patched(@[i], req.body) ELSE @[i]]]
      [] req.verb = "delete" ->
            [r EXCEPT ![req.table] = NotMatching(@, req.col, req.val)]

\* The data of the remote's answer to an applied write: select().single() of
\* an insert gives the inserted row, the other writes give no data.
WriteData(req, r, now) ==
    IF req.verb = "insert" THEN <<Inserted(req.body, r, now)>> ELSE <<>>

----------------------------------------------------------------------------
\* The code of the hook between two awaits

\* validNotifications without the filter.
ValidNotificationsAll(data) == data

\* validNotifications: the records whose target_audience is recognized.
ValidNotifications(data) ==
    SelectSeq(data, LAMBDA notif : notif.target_audience \in ValidAudiences)

\* What the k-th setter of fetchData is given for answer data.
Fetched(k, data) == IF k = NumReads THEN ValidNotifications(data) ELSE data

\* Assigned with the setPhotoGallery call left out.
AssignedNoGallery(i, k, cur, data) == IF i = k /\ k # 4 THEN Fetched(k, data) ELSE cur

\* Assigned with a collection that is already loaded kept as it is.
AssignedOnce(i, k, cur, data) == IF i = k /\ cur = <<>> THEN Fetched(k, data) ELSE cur

\* Collection i after fetchData has handled the successful answer of read k.
Assigned(i, k, cur, data) == IF i = k THEN Fetched(k, data) ELSE cur

\* Throws with the check of the error left out.
ThrowsNever(resp) == FALSE

\* if (error) throw error: true when the answer makes the function throw.
Throws(resp) == ~resp.ok

\* EnterLoading with the flag left as it is.
EnterLoadingKept(cur) == cur

\* The loading flag after the first statement of fetchData, setLoading(true).
EnterLoading(cur) == TRUE

\* FinallyLoading with setLoading(false) at the end of the try block only.
FinallyLoadingOnSuccess(cur, failed) == IF failed THEN cur ELSE FALSE

\* The loading flag after the finally block of fetchData.
FinallyLoading(cur, failed) == FALSE

\* CallsFetch with fetchData called in the catch block too.
CallsFetchAlways(resp) == TRUE

\* A mutator calls fetchData after its write iff the write did not throw.
CallsFetch(resp) == ~Throws(resp)

\* AfterWriteLocal with the inserted registration put in the local collection.
AfterWriteLocalOptimistic(i, cur, op, resp) ==
    IF i = 5 /\ op = "createRegistration" /\ resp.ok THEN resp.data \o cur ELSE cur

\* A local collection after a mutator has handled the answer of its write
\* (no setter is called there).
AfterWriteLocal(i, cur, op, resp) == cur

\* Returned with the failure of the reload reported as the mutator's failure.
ReturnedReloadFailure(op, wresp, fetchFailed) ==
    CASE op = "fetchData" -> Ret("undefined", NoReg)
      [] op = "createRegistration" ->
            IF wresp.ok /\ ~fetchFailed THEN Ret("record", wresp.data[1])
            ELSE Ret("null", NoReg)
      [] OTHER -> IF wresp.ok /\ ~fetchFailed THEN Ret("true", NoReg)
                  ELSE Ret("false", NoReg)

\* Returned with the error of the write thrown again from the catch block.
ReturnedRethrow(op, wresp, fetchFailed) ==
    CASE op = "fetchData" -> Ret("undefined", NoReg)
      [] op = "createRegistration" ->
            IF wresp.ok THEN Ret("record", wresp.data[1]) ELSE Ret("null", NoReg)
      [] OTHER -> IF wresp.ok THEN Ret("true", NoReg) ELSE Ret("raised", NoReg)

\* What a call returns: fetchData nothing, createRegistration the inserted row
\* (data) or null, the other mutators true or false.
Returned(op, wresp, fetchFailed) ==
    CASE op = "fetchData" -> Ret("undefined", NoReg)
      [] op = "createRegistration" ->
            IF Throws(wresp) THEN Ret("null", NoReg) ELSE Ret("record", wresp.data[1])
      [] OTHER -> IF Throws(wresp) THEN Ret("false", NoReg) ELSE Ret("true", NoReg)

----------------------------------------------------------------------------
\* Calls

\* A slot that holds no call yet.  Besides its position (pc, k: the read it is
\* at) and the answers it holds (resp: the one it awaits, wresp: its write's),
\* a call records what it did: toasts shown, requests sent, fetchData calls,
\* setters called, the read that failed (0: none), whether no other call was in
\* flight since it began or, later, entered fetchData (alone) and, while alone,
\* the local state as it was at that moment (before); the store as it was then
\* (snap); whether it is the fetchData call begun last (latest) and that of the
\* write answered last (lastw).
IdleCall ==
    [op |-> "none", args |-> NoArgs, pc |-> "idle", k |-> 0, at |-> 0,
     resp |-> NoResp, wresp |-> NoResp, ret |-> Ret("pending", NoReg),
     okToasts |-> 0, errToasts |-> 0, writes |-> 0, reads |-> 0, fetches |-> 0,
     assigned |-> 0, failedAt |-> 0, alone |-> FALSE,
     snap |-> NoSnap, before |-> NoBefore, latest |-> FALSE, lastw |-> FALSE]

InFlight(c) == c.pc \notin {"idle", "done"}
InFetch(c) == c.pc \in {"reading", "answered"}

StoreInit ==
    /\ registrations = <<>>
    /\ categories = <<>>
    /\ panchayaths = <<>>
    /\ announcements = <<>>
    /\ photoGallery = <<>>
    /\ notifications = <<>>
    /\ loading = TRUE
    /\ remote = [categories |-> InitCategories, panchayaths |-> InitPanchayaths,
                 announcements |-> InitAnnouncements, photo_gallery |-> InitGallery,
                 registrations |-> InitRegistrations,
                 push_notifications |-> InitNotifications, nextId |-> 2]
    /\ clock = 1
    /\ started = 0
    /\ failures = 0
    /\ lastFetch = [clean |-> FALSE, state |-> "none"]
    /\ lastWrite = "none"
    /\ call = [p \in Slots |-> IdleCall]

\* The sessions the remote may hold: none, or one of a user.
NoSession == [present |-> FALSE, user |-> "null"]
Users == {"alice", "bob"}
Sessions == {NoSession} \cup {[present |-> TRUE, user |-> u] : u \in Users}

\* The promise of getSession(): not called yet (idle), awaiting the remote
\* (sent), resolved with data and its then-callback not yet run (resolved),
\* or callback run (done); data and error are what it resolved with.
NoPromise == [pc |-> "idle", data |-> [session |-> NoSession], error |-> FALSE]

\* AuthProvider before its effect has run, the remote's session being s.
ProviderInit(s) ==
    /\ user = "null"
    /\ session = s
    /\ provider = "no"
    /\ getSession = NoPromise
    /\ subscription = "none"
    /\ events = <<>>
    /\ setCalls = 0
    /\ issued = 0

Init == StoreInit /\ ProviderInit(NoSession)

OthersInFlight(p) == \E q \in Slots \ {p} : InFlight(call[q])
OthersInFetch(p) == \E q \in Slots \ {p} : InFetch(call[q])

\* The record of a finished call is kept for one step (its caller reads what
\* it returned) and then dropped.
Swept(c) == IF c.pc = "done" THEN IdleCall ELSE c

\* The slots after slot p's call has become c.
Step(p, c) == [q \in Slots |-> IF q = p THEN c ELSE Swept(call[q])]

\* The slots after slot p's call has entered fetchData as c, of a write
\* (ofWrite) or not: the others are no longer the latest.
StepFetch(p, c, ofWrite) ==
    [q \in Slots |->
        IF q = p THEN c
        ELSE IF InFlight(call[q])
             THEN [call[q] EXCEPT !.latest = FALSE,
                                  !.lastw = IF ofWrite THEN FALSE ELSE @]
             ELSE Swept(call[q])]

\* lastFetch and lastWrite once call c has ended its fetchData in state st.
Ended(c, st) ==
    /\ lastFetch' = IF c.latest THEN [lastFetch EXCEPT !.state = st] ELSE lastFetch
    /\ lastWrite' = IF c.lastw THEN st ELSE lastWrite

\* The call of slot c with another call starting: it is no longer alone.
Joined(c) ==
    IF InFlight(c) THEN [c EXCEPT !.alone = FALSE, !.before = NoBefore]
    ELSE Swept(c)

\* Call c begins, or enters fetchData, with or without others in flight.
Marked(c, others) ==
    [c EXCEPT !.alone = ~others, !.snap = remote,
              !.before = IF others THEN NoBefore ELSE Local]

\* Call c enters fetchData: setLoading(true) and the first read is sent.
EnterFetch(c, others) ==
    Marked([c EXCEPT !.pc = "reading", !.k = 1, !.resp = NoResp, !.reads = 1,
                     !.fetches = @ + 1, !.latest = TRUE], others)

\* A new call takes the first free slot.
MayStart(p) ==
    /\ started < MaxCalls
    /\ ~InFlight(call[p])
    /\ \A q \in Slots : q < p => InFlight(call[q])

LocalUnchanged ==
    UNCHANGED <<registrations, categories, panchayaths, announcements,
                photoGallery, notifications>>

\* useEffect(() => { fetchData() }, []), the first call of all, and the UI's
\* refreshData().
CallFetch(p) ==
    /\ MayStart(p)
    /\ loading' = EnterLoading(loading)
    /\ call' = [q \in Slots |->
                  IF q = p
                  THEN EnterFetch([IdleCall EXCEPT !.op = "fetchData"],
                                  OthersInFlight(p))
                  ELSE [Joined(call[q]) EXCEPT !.latest = FALSE]]
    /\ lastFetch' = [clean |-> ~OthersInFetch(p), state |-> "running"]
    /\ started' = started + 1
    /\ LocalUnchanged
    /\ UNCHANGED <<remote, clock, failures, lastWrite>>
    /\ UNCHANGED authVars

\* Time is read by updateRegistrationStatus (new Date()) and by the remote for
\* the row createRegistration inserts; the clock advances with each such call.
ReadsClock(op) == op \in {"updateRegistrationStatus", "createRegistration"}

\* The UI calls a mutator, which sends its write request.
CallMutator(p, op, args) ==
    /\ MayStart(p)
    /\ started > 0
    /\ call' = [q \in Slots |->
                  IF q = p
                  THEN Marked([IdleCall EXCEPT !.op = op, !.args = args, !.pc = "writing",
                                               !.at = IF ReadsClock(op) THEN clock ELSE 0,
                                               !.writes = 1],
                              OthersInFlight(p))
                  ELSE Joined(call[q])]
    /\ started' = started + 1
    /\ clock' = IF ReadsClock(op) THEN clock + 1 ELSE clock
    /\ LocalUnchanged
    /\ UNCHANGED <<loading, remote, failures, lastFetch, lastWrite>>
    /\ UNCHANGED authVars

\* The remote answers the write of call p: applied, or an error and no change.
RemoteWrite(p, ok) ==
    /\ call[p].pc = "writing"
    /\ ok \/ failures < MaxFailures
    /\ failures' = IF ok THEN failures ELSE failures + 1
    /\ LET req == WriteRequest(call[p].op, call[p].args, call[p].at)
       IN /\ remote' = IF ok THEN Applied(req, remote, clock) ELSE remote
          /\ call' = Step(p, [call[p] EXCEPT !.pc = "written",
                         !.resp = IF ok THEN [ok |-> TRUE, data |-> WriteData(req, remote, clock)]
                                  ELSE NoResp])
    /\ LocalUnchanged
    /\ UNCHANGED <<loading, clock, started, lastFetch, lastWrite>>
    /\ UNCHANGED authVars

\* The mutator of call p resumes with the answer of its write.
AfterWrite(p) ==
    /\ call[p].pc = "written"
    /\ LET c == call[p]
           resp == c.resp
       IN /\ registrations' = AfterWriteLocal(5, registrations, c.op, resp)
          /\ categories' = AfterWriteLocal(1, categories, c.op, resp)
          /\ UNCHANGED <<panchayaths, announcements, photoGallery, notifications>>
          /\ IF CallsFetch(resp)
             THEN /\ loading' = EnterLoading(loading)
                  /\ call' = StepFetch(p,
                        EnterFetch([c EXCEPT !.wresp = resp, !.lastw = TRUE,
                                             !.okToasts = @ + (IF Throws(resp) THEN 0 ELSE 1),
                                             !.errToasts = @ + (IF Throws(resp) THEN 1 ELSE 0)],
                                   OthersInFlight(p)), TRUE)
                  /\ lastFetch' = [clean |-> ~OthersInFetch(p), state |-> "running"]
                  /\ lastWrite' = "running"
             ELSE /\ loading' = loading
                  /\ UNCHANGED <<lastFetch, lastWrite>>
                  /\ call' = Step(p, [c EXCEPT !.pc = "done", !.wresp = resp,
                                 !.resp = NoResp,
                                 !.errToasts = @ + 1,
                                 !.ret = Returned(c.op, resp, FALSE)])
    /\ UNCHANGED <<remote, clock, started, failures>>
    /\ UNCHANGED authVars

\* The remote answers the read call p awaits: the query's rows, or an error.
RemoteRead(p, ok) ==
    /\ call[p].pc = "reading"
    /\ ok \/ failures < MaxFailures
    /\ failures' = IF ok THEN failures ELSE failures + 1
    /\ call' = Step(p, [call[p] EXCEPT !.pc = "answered",
                   !.resp = IF ok THEN [ok |-> TRUE, data |-> Query(call[p].k, remote)]
                            ELSE NoResp])
    /\ LocalUnchanged
    /\ UNCHANGED <<loading, remote, clock, started, lastFetch, lastWrite>>
    /\ UNCHANGED authVars

\* fetchData of call p resumes with the answer of its k-th read: the setter
\* and the next read, or after the last read and on an error the catch and
\* finally blocks and the return (of the mutator that called it, too).
AfterRead(p) ==
    /\ call[p].pc = "answered"
    /\ LET c == call[p]
           k == c.k
           resp == c.resp
       IN IF Throws(resp)
          THEN /\ LocalUnchanged
               /\ loading' = FinallyLoading(loading, TRUE)
               /\ call' = Step(p, [c EXCEPT !.pc = "done", !.resp = NoResp,
                              !.failedAt = k, !.errToasts = @ + 1,
                              !.ret = Returned(c.op, c.wresp, TRUE)])
               /\ Ended(c, "failed")
          ELSE /\ categories' = Assigned(1, k, categories, resp.data)
               /\ panchayaths' = Assigned(2, k, panchayaths, resp.data)
               /\ announcements' = Assigned(3, k, announcements, resp.data)
               /\ photoGallery' = Assigned(4, k, photoGallery, resp.data)
               /\ registrations' = Assigned(5, k, registrations, resp.data)
               /\ notifications' = Assigned(6, k, notifications, resp.data)
               /\ IF k < NumReads
                  THEN /\ loading' = loading
                       /\ UNCHANGED <<lastFetch, lastWrite>>
                       /\ call' = Step(p, [c EXCEPT !.pc = "reading", !.k = k + 1,
                                      !.resp = NoResp, !.reads = @ + 1,
                                      !.assigned = @ + 1])
                  ELSE /\ loading' = FinallyLoading(loading, FALSE)
                       /\ call' = Step(p, [c EXCEPT !.pc = "done", !.resp = NoResp,
                                      !.assigned = @ + 1,
                                      !.ret = Returned(c.op, c.wresp, FALSE)])
                       /\ Ended(c, "ok")
    /\ UNCHANGED <<remote, clock, started, failures>>
    /\ UNCHANGED authVars

Next ==
    \/ \E p \in Slots : CallFetch(p)
    \/ \E p \in Slots, op \in Mutators : \E args \in ArgsOf(op) : CallMutator(p, op, args)
    \/ \E p \in Slots, ok \in BOOLEAN : RemoteWrite(p, ok)
    \/ \E p \in Slots : AfterWrite(p)
    \/ \E p \in Slots, ok \in BOOLEAN : RemoteRead(p, ok)
    \/ \E p \in Slots : AfterRead(p)

Spec == Init /\ [][Next]_vars

\* Every request is answered and every resumed function runs.
FairSpec ==
    /\ Spec
    /\ \A p \in Slots :
          /\ WF_vars(\E ok \in BOOLEAN : RemoteWrite(p, ok))
          /\ WF_vars(AfterWrite(p))
          /\ WF_vars(\E ok \in BOOLEAN : RemoteRead(p, ok))
          /\ WF_vars(AfterRead(p))

----------------------------------------------------------------------------
\* AuthProvider

\* SessionUser with the user of the session dropped.
SessionUserNone(s) == "null"

\* session?.user ?? null
SessionUser(s) == IF s.present THEN s.user ELSE "null"

\* The data getSession() resolves with when the remote's session is s: the
\* session, or no session when the lookup failed.
SessionData(s, ok) == [session |-> IF ok THEN s ELSE NoSession]

\* listener.subscription.unsubscribe()
Unsubscribed(sub) == "released"

\* The events on their way after the remote's session has become s: one more
\* for an active subscription.
Emitted(q, sub, s) == IF sub = "active" THEN Append(q, s) ELSE q

AuthInit == StoreInit /\ \E s \in Sessions : ProviderInit(s)

\* The effect of AuthProvider runs: getSession() is called and the listener
\* is subscribed.
Mount ==
    /\ provider = "no"
    /\ provider' = "yes"
    /\ getSession' = [NoPromise EXCEPT !.pc = "sent"]
    /\ subscription' = "active"
    /\ UNCHANGED <<user, session, events, setCalls, issued>>
    /\ UNCHANGED storeVars

\* The remote answers getSession() with its current session, or with none.
SessionRead(ok) ==
    /\ getSession.pc = "sent"
    /\ getSession' = [pc |-> "resolved", data |-> SessionData(session, ok),
                      error |-> ~ok]
    /\ UNCHANGED <<user, session, provider, subscription, events, setCalls, issued>>
    /\ UNCHANGED storeVars

\* The then-callback of getSession() runs: setUser(data?.session?.user ?? null).
SessionResolved ==
    /\ getSession.pc = "resolved"
    /\ user' = SessionUser(getSession.data.session)
    /\ setCalls' = setCalls + 1
    /\ getSession' = [getSession EXCEPT !.pc = "done"]
    /\ UNCHANGED <<session, provider, subscription, events, issued>>
    /\ UNCHANGED storeVars

\* The remote's session changes to s (sign-in, sign-out, another user) and
\* the change is pushed to the subscribed listener.
SessionChange(s) ==
    /\ issued < MaxEvents
    /\ s # session
    /\ session' = s
    /\ events' = Emitted(events, subscription, s)
    /\ issued' = issued + 1
    /\ UNCHANGED <<user, provider, getSession, subscription, setCalls>>
    /\ UNCHANGED storeVars

\* The listener is called with the oldest event on its way:
\* setUser(session?.user ?? null).
Deliver ==
    /\ subscription = "active"
    /\ events # <<>>
    /\ user' = SessionUser(Head(events))
    /\ events' = Tail(events)
    /\ setCalls' = setCalls + 1
    /\ UNCHANGED <<session, provider, getSession, subscription, issued>>
    /\ UNCHANGED storeVars

\* AuthProvider is torn down: the cleanup of its effect runs.
Teardown ==
    /\ provider = "yes"
    /\ provider' = "torn"
    /\ subscription' = Unsubscribed(subscription)
    /\ UNCHANGED <<user, session, getSession, events, setCalls, issued>>
    /\ UNCHANGED storeVars

AuthNext ==
    \/ Mount
    \/ \E ok \in BOOLEAN : SessionRead(ok)
    \/ SessionResolved
    \/ \E s \in Sessions : SessionChange(s)
    \/ Deliver
    \/ Teardown

AuthSpec == AuthInit /\ [][AuthNext]_vars

----------------------------------------------------------------------------
\* What the claims speak of

Done(p) == call[p].pc = "done"

\* Slot p's call has run fetchData to its end with all six reads answered.
FetchedAll(p) == Done(p) /\ call[p].fetches = 1 /\ call[p].failedAt = 0

Recognized(s) ==
    SelectSeq(s, LAMBDA n : n.target_audience \in {"all", "category", "panchayath", "admin"})

Active(s) == SelectSeq(s, LAMBDA a : a.is_active)

\* What store r holds for the six collections, in fetchData's order.
RemoteResult(r) ==
    <<r.categories, r.panchayaths, Active(r.announcements), r.photo_gallery,
      r.registrations, Recognized(r.push_notifications)>>

Quiescent == \A p \in Slots : ~InFlight(call[p])

----------------------------------------------------------------------------
\* C1: when a refresh() call in which all six reads succeed completes, each
\* of the six collections equals the remote query result at call time.
\* As claimed, for every call:
C1_AtCallTime ==
    \A p \in Slots : FetchedAll(p) => Collections = RemoteResult(call[p].snap)

\* C1 as amended: the same for every refresh() call that no other call of the
\* layer overlaps.
C1_AtCallTimeAlone ==
    \A p \in Slots :
        FetchedAll(p) /\ call[p].alone => Collections = RemoteResult(call[p].snap)

\* A mutator's reload, not overlapped, has completed after its write changed
\* the store.
C1_Witness ==
    \E p \in Slots :
        /\ FetchedAll(p) /\ call[p].alone
        /\ call[p].op = "updateCategoryFees"
        /\ call[p].snap.categories # InitCategories

\* C2: the exposed notifications never hold a record with an unrecognized
\* target_audience; they are the valid records of the remote result, in the
\* remote's order (or still the initial empty list).
C2_OnlyValidNotifications ==
    /\ \A j \in DOMAIN notifications :
          notifications[j].target_audience \in {"all", "category", "panchayath", "admin"}
    /\ notifications \in {<<>>, Recognized(remote.push_notifications)}

\* The notifications were loaded from a table that holds a malformed record.
C2_Witness ==
    /\ notifications # <<>>
    /\ \E j \in DOMAIN remote.push_notifications :
          remote.push_notifications[j].target_audience = "everyone"
    /\ Len(notifications) = 2

\* C3: createRegistration returns null iff the insert failed; after a
\* successful insert it returns the inserted record (the input's fields plus
\* the server-assigned id and timestamp), also when the reload failed.
C3_CreateReturn ==
    \A p \in Slots :
        Done(p) /\ call[p].op = "createRegistration" =>
            LET c == call[p] IN
            /\ c.ret.kind \in {"null", "record"}
            /\ c.ret.kind = "null" <=> ~c.wresp.ok
            /\ c.wresp.ok =>
                  /\ c.ret.rec.full_name = c.args.data.full_name
                  /\ c.ret.rec.status = c.args.data.status
                  /\ c.ret.rec.id >= 2
                  /\ c.ret.rec.submitted_at >= 1
                  /\ \E j \in DOMAIN remote.registrations :
                        remote.registrations[j] = c.ret.rec

\* createRegistration has returned after its insert succeeded and a read of
\* its reload failed.
C3_Witness ==
    \E p \in Slots :
        /\ Done(p) /\ call[p].op = "createRegistration"
        /\ call[p].wresp.ok /\ call[p].failedAt > 0
        /\ call[p].ret.kind = "record"

\* C4: the four boolean mutators never raise; they return true exactly when
\* the write succeeded, whatever the reload did, and false, after exactly one
\* error notification, exactly when the write failed.
C4_BoolReturn ==
    \A p \in Slots :
        Done(p) /\ call[p].op \in BoolMutators =>
            LET c == call[p] IN
            /\ c.ret.kind \in {"true", "false"}
            /\ c.ret.kind = "true" <=> c.wresp.ok
            /\ ~c.wresp.ok => c.errToasts = 1 /\ c.okToasts = 0

\* A boolean mutator has returned true although a read of its reload failed.
C4_Witness ==
    \E p \in Slots :
        /\ Done(p) /\ call[p].op \in BoolMutators
        /\ call[p].wresp.ok /\ call[p].failedAt > 0 /\ call[p].ret.kind = "true"

\* C5: every mutator call performs exactly one remote write and then calls
\* refresh().  As claimed, whatever the write's outcome:
C5_AlwaysRefreshes ==
    \A p \in Slots :
        Done(p) /\ call[p].op \in Mutators =>
            call[p].writes = 1 /\ call[p].fetches = 1

\* C5 as amended: exactly one remote write, and then refresh() is called
\* once if the write succeeded and not at all if it failed; refresh() is
\* never called before the write is answered.
C5_RefreshesOnSuccess ==
    \A p \in Slots :
        call[p].op \in Mutators =>
            LET c == call[p] IN
            /\ c.writes = 1
            /\ c.pc \in {"writing", "written"} => c.fetches = 0
            /\ Done(p) => (c.fetches = IF c.wresp.ok THEN 1 ELSE 0)
            /\ InFetch(c) => c.fetches = 1 /\ c.wresp.ok

\* A mutator has returned after a failed write.
C5_Witness ==
    \E p \in Slots :
        Done(p) /\ call[p].op \in Mutators /\ ~call[p].wresp.ok /\ call[p].fetches = 0

\* C6: a mutator call whose remote write fails leaves the remote store, the
\* six collections and the loading flag unchanged: neither the remote's error
\* answer nor the mutator's handling of it changes any of them, and a call
\* that ran with no other call in flight ends with all of them as they were
\* when it began.
C6_FailedWriteChangesNothing ==
    /\ [](\A p \in Slots :
            Done(p) /\ call[p].op \in Mutators /\ ~call[p].wresp.ok /\ call[p].alone =>
                remote = call[p].snap /\ Local = call[p].before)
    /\ [][\A p \in Slots :
            /\ (call[p].pc = "writing" /\ call'[p].pc = "written" /\ ~call'[p].resp.ok) =>
                  remote' = remote /\ Local' = Local
            /\ (call[p].pc = "written" /\ ~call[p].resp.ok /\ call'[p].pc # "written") =>
                  call'[p].pc = "done" /\ remote' = remote /\ Local' = Local]_vars

\* A mutator has returned after its write failed, the collections loaded and
\* loading false.
C6_Witness ==
    \E p \in Slots :
        /\ Done(p) /\ call[p].op = "deleteRegistration"
        /\ ~call[p].wresp.ok /\ call[p].alone
        /\ ~loading /\ registrations # <<>>

\* The fields of the rows of the six collections.
Fields ==
    <<DOMAIN InitCategories[1], DOMAIN InitPanchayaths[1], DOMAIN InitAnnouncements[1],
      DOMAIN InitGallery[1], DOMAIN InitRegistrations[1], DOMAIN InitNotifications[1]>>

C8_Loading ==
    /\ \A p \in Slots : []<>(~InFetch(call[p]))
    /\ [][\A p \in Slots :
            /\ (~InFetch(call[p]) /\ InFetch(call'[p])) => loading'
            /\ (InFetch(call[p]) /\ ~InFetch(call'[p])) =>
                  call'[p].pc = "done" /\ ~loading']_vars
    /\ [](started = 0 => loading)
    /\ [](started = 1 /\ Quiescent => ~loading)
    /\ [][(started' <= 1 /\ loading' # loading) =>
            loading /\ ~loading' /\ InFetch(call[1]) /\ call'[1].pc = "done"]_vars

\* The initial load has ended with a failed read and loading is false.
C8_Witness ==
    /\ started = 1 /\ Done(1)
    /\ call[1].failedAt = 3
    /\ ~loading

\* C9: a local collection changes only in the step of a refresh that assigns
\* it the answer of its read, never in a mutator's own steps; so a mutator
\* that runs with no other call in flight leaves every collection as it was
\* until its reload has read that collection.
C9_NoOptimisticUpdate ==
    /\ [](\A p \in Slots :
            call[p].op \in Mutators /\ InFlight(call[p]) /\ call[p].alone =>
                \A i \in 1 .. NumReads :
                    i > call[p].assigned => Collections[i] = call[p].before[i])
    /\ [][\A i \in 1 .. NumReads :
            Collections'[i] # Collections[i] =>
                \E p \in Slots :
                    /\ call[p].pc = "answered" /\ call[p].resp.ok /\ call[p].k = i
                    /\ call'[p].pc # "answered"
                    /\ Collections'[i] = IF i = 6 THEN Recognized(call[p].resp.data)
                                         ELSE call[p].resp.data]_vars

\* The insert of createRegistration is applied and answered, and the local
\* registrations are still the ones loaded before.
C9_Witness ==
    \E p \in Slots :
        /\ call[p].op = "createRegistration" /\ call[p].pc = "written"
        /\ call[p].resp.ok /\ call[p].alone
        /\ Len(registrations) = 1 /\ Len(remote.registrations) = 2

\* C10: once all calls have completed and the remote store no longer changes,
\* each local collection equals the current remote content of its query.  As
\* claimed, for every interleaving in which the refresh of the write answered
\* last had no read failure:
C10_EventuallyConsistent ==
    Quiescent /\ lastWrite = "ok" => Collections = RemoteResult(remote)

\* C10 as amended: the same, provided the refresh() call begun last began with
\* no other refresh in flight and had no read failure.
C10_ConsistentAfterCleanRefresh ==
    Quiescent /\ lastFetch.clean /\ lastFetch.state = "ok" =>
        Collections = RemoteResult(remote)

\* All calls have completed after two writes changed the store, the second
\* one's reload begun with no other refresh in flight.
C10_Witness ==
    /\ Quiescent /\ lastFetch.clean /\ lastFetch.state = "ok" /\ lastWrite = "ok"
    /\ remote.categories # InitCategories
    /\ remote.registrations # InitRegistrations

\* The registrations of store r with the one of id id changed to status st
\* and approved_at at, and to unique_id uid if setUid.
StatusSet(r, id, st, at, uid, setUid) ==
    [j \in DOMAIN r.registrations |->
        IF r.registrations[j].id = id
        THEN [r.registrations[j] EXCEPT !.status = st, !.approved_at = at,
                                        !.unique_id = IF setUid THEN uid ELSE @]
        ELSE r.registrations[j]]

\* Slot p's call of op gets, in this step, the answer that its write is applied.
WriteApplied(p, op) ==
    /\ call[p].op = op /\ call[p].pc = "writing"
    /\ call'[p].pc = "written" /\ call'[p].resp.ok

\* C12: the step in which the remote applies the update of a successful
\* updateRegistrationStatus(id, status, uniqueId) sets status and approved_at
\* (the time of the call) on the registration with that id, sets unique_id to
\* uniqueId when it is supplied and leaves it when not, and changes nothing
\* else in the store.  As claimed, a uniqueId counting as supplied whenever it
\* is given:
C12_StatusUpdate ==
    [][\A p \in Slots :
        WriteApplied(p, "updateRegistrationStatus") =>
            LET a == call[p].args IN
            remote' = [remote EXCEPT !.registrations =
                          StatusSet(remote, a.id, a.status, call[p].at, a.uniqueId,
                                    a.uniqueId # "none")]]_vars

\* C12 as amended: the same, with unique_id set when uniqueId is supplied and
\* not the empty string, and left as it was when uniqueId is absent or empty.
C12_StatusUpdateNonEmpty ==
    [][\A p \in Slots :
        WriteApplied(p, "updateRegistrationStatus") =>
            LET a == call[p].args IN
            remote' = [remote EXCEPT !.registrations =
                          StatusSet(remote, a.id, a.status, call[p].at, a.uniqueId,
                                    a.uniqueId \notin {"none", ""})]]_vars

\* An update with the empty uniqueId is applied to the registration that an
\* earlier update gave the unique_id U123, and the unique_id is still U123.
C12_Witness ==
    \E p \in Slots :
        /\ call[p].op = "updateRegistrationStatus" /\ call[p].pc = "written"
        /\ call[p].resp.ok /\ call[p].args.uniqueId = ""
        /\ \E j \in DOMAIN remote.registrations :
              /\ remote.registrations[j].id = 1
              /\ remote.registrations[j].unique_id = "U123"
              /\ remote.registrations[j].approved_at = call[p].at
              /\ call[p].at > 1

\* C13: in every step, a registration that stays in the store changes its
\* status only from pending to approved or rejected, and its approved_at or
\* unique_id only together with such a change of status.
C13_StatusTransitions ==
    [][\A j \in DOMAIN remote.registrations, i \in DOMAIN remote'.registrations :
        LET old == remote.registrations[j]
            new == remote'.registrations[i]
            transition == old.status = "pending" /\ new.status \in {"approved", "rejected"}
        IN old.id = new.id =>
              /\ new.status # old.status => transition
              /\ (new.approved_at # old.approved_at \/ new.unique_id # old.unique_id) =>
                    transition]_vars

\* C11: calls that overlap are not serialized, coalesced or cancelled.  The
\* step in which a mutator handles the answer of its successful write begins
\* a refresh cycle of its own at the first read, whatever else is in flight;
\* every cycle without a failed read runs through all six reads and
\* assignments also when a later cycle has begun meanwhile; and each read
\* that completes assigns its result to its collection and to no other, so a
\* collection holds the result of the read of it that completed last.
C11_IndependentCycles ==
    /\ [](\A p \in Slots :
            Done(p) /\ call[p].op \in Mutators /\ call[p].wresp.ok =>
                /\ call[p].fetches = 1
                /\ call[p].failedAt = 0 => call[p].reads = 6 /\ call[p].assigned = 6)
    /\ [][\A p \in Slots :
            /\ (call[p].pc = "written" /\ call[p].resp.ok /\ call'[p].pc # "written") =>
                  /\ call'[p].pc = "reading" /\ call'[p].k = 1
                  /\ call'[p].reads = 1 /\ call'[p].fetches = 1
            /\ (call[p].pc = "answered" /\ call[p].resp.ok /\ call'[p].pc # "answered") =>
                  LET k == call[p].k IN
                  /\ \A i \in 1 .. 6 :
                        Collections'[i] =
                            IF i # k THEN Collections[i]
                            ELSE IF i = 6 THEN Recognized(call[p].resp.data)
                            ELSE call[p].resp.data
                  /\ call'[p].assigned = k
                  /\ k < 6 => call'[p].pc = "reading" /\ call'[p].k = k + 1]_vars

\* Two mutators' cycles have both run through their six reads; the cycle
\* begun first completed last, and the registrations it read before the
\* other's write are what the collection holds.
C11_Witness ==
    \E p \in Slots :
        /\ Quiescent /\ Done(p)
        /\ call[p].op \in Mutators /\ call[p].assigned = 6
        /\ ~call[p].lastw /\ ~call[p].latest
        /\ lastWrite = "ok" /\ lastFetch.state = "ok"
        /\ registrations # remote.registrations

\* The tables in the order the claim gives for the six reads.
ReadOrder == <<"categories", "panchayaths", "announcements", "photo_gallery",
               "registrations", "push_notifications">>

\* The rows the read of table t gives on store r.
RowsRead(t, r) == IF t = "announcements" THEN Active(r[t]) ELSE r[t]

\* C16: a refresh() call has at most one read outstanding: it has sent as
\* many reads as the number k of the read it is at, in the order categories,
\* regions, announcements, gallery, registrations, notifications (the answer
\* of read k holds the rows of the k-th of these), and has assigned the
\* collections of the reads before; read k+1 is sent only in the step that
\* assigns the successful answer of read k.
C16_SequentialReads ==
    /\ [](\A p \in Slots :
            InFetch(call[p]) =>
                /\ call[p].k \in 1 .. 6
                /\ call[p].reads = call[p].k
                /\ call[p].assigned = call[p].k - 1)
    /\ [][\A p \in Slots :
            /\ (call[p].pc = "reading" /\ call'[p].pc = "answered" /\ call'[p].resp.ok) =>
                  /\ call'[p].resp.data = RowsRead(ReadOrder[call[p].k], remote)
                  /\ call'[p].reads = call[p].reads
            /\ call'[p].reads > call[p].reads =>
                  \/ /\ ~InFetch(call[p])
                     /\ call'[p].pc = "reading" /\ call'[p].k = 1 /\ call'[p].reads = 1
                  \/ /\ call[p].pc = "answered" /\ call[p].resp.ok
                     /\ call'[p].pc = "reading"
                     /\ call'[p].k = call[p].k + 1
                     /\ call'[p].reads = call[p].reads + 1
                     /\ call'[p].assigned = call[p].k
                     /\ Collections'[call[p].k] =
                            IF call[p].k = 6 THEN Recognized(call[p].resp.data)
                            ELSE call[p].resp.data]_vars

\* A refresh() call awaits its fifth read, that of the registrations, with
\* the gallery assigned and the fourth read's answer handled.
C16_Witness ==
    \E p \in Slots :
        /\ call[p].pc = "reading" /\ call[p].k = 5 /\ call[p].reads = 5
        /\ call[p].assigned = 4
        /\ photoGallery = remote.photo_gallery /\ photoGallery # <<>>

\* The fee fields of a category.
Fees(row) == <<row.actual_fee, row.offer_fee, row.has_offer>>

\* The categories of store r with those named name given the fees of a.
FeesSet(r, a) ==
    [j \in DOMAIN r.categories |->
        IF r.categories[j].name = a.categoryName
        THEN [r.categories[j] EXCEPT !.actual_fee = a.actualFee,
                                     !.offer_fee = a.offerFee, !.has_offer = a.hasOffer]
        ELSE r.categories[j]]

\* The categories of store r with those named name given the image of a.
ImageSet(r, a) ==
    [j \in DOMAIN r.categories |->
        IF r.categories[j].name = a.categoryName
        THEN [r.categories[j] EXCEPT !.image_url = a.imageUrl]
        ELSE r.categories[j]]

\* C17: the step in which the remote applies updateCategoryFees writes the
\* three fee fields of the categories named categoryName and nothing else,
\* and that of updateCategoryImage their image_url and nothing else; the
\* categories change in no other step, so a fee field never changes without
\* the offer flag being written with it; and in every state a category shows
\* its three fee fields either all as loaded or all as one call gave them.
C17_FeesAtomic ==
    /\ [](\A j \in DOMAIN remote.categories :
            \/ \E i \in DOMAIN InitCategories :
                  /\ InitCategories[i].name = remote.categories[j].name
                  /\ Fees(InitCategories[i]) = Fees(remote.categories[j])
            \/ \E a \in ArgsOf("updateCategoryFees") :
                  /\ a.categoryName = remote.categories[j].name
                  /\ Fees(remote.categories[j]) = <<a.actualFee, a.offerFee, a.hasOffer>>)
    /\ [][/\ \A p \in Slots :
                /\ WriteApplied(p, "updateCategoryFees") =>
                      remote' = [remote EXCEPT !.categories = FeesSet(remote, call[p].args)]
                /\ WriteApplied(p, "updateCategoryImage") =>
                      remote' = [remote EXCEPT !.categories = ImageSet(remote, call[p].args)]
          /\ remote'.categories # remote.categories =>
                \E p \in Slots :
                    \/ WriteApplied(p, "updateCategoryFees")
                    \/ WriteApplied(p, "updateCategoryImage")]_vars

\* The fees of c1 have been updated after its image was: c1 shows the new
\* fees, the offer flag and the new image, c2 is as loaded.
C17_Witness ==
    /\ \E p \in Slots :
          /\ call[p].op = "updateCategoryFees" /\ call[p].pc = "written"
          /\ call[p].resp.ok
    /\ Fees(remote.categories[1]) = <<5, 4, TRUE>>
    /\ remote.categories[1].image_url = "i1"
    /\ remote.categories[2] = InitCategories[2]

\* C18: loading is true whenever a refresh() call is in flight.  As claimed,
\* also with overlapping refreshes:
C18_LoadingTracks ==
    \A p \in Slots : InFetch(call[p]) => loading

\* C18 as amended: loading is true whenever a refresh() call is in flight
\* that no other refresh() call overlaps: it began with none in flight and
\* none has begun since.
C18_LoadingTracksAlone ==
    \A p \in Slots :
        InFetch(call[p]) /\ call[p].latest /\ lastFetch.clean => loading

\* A refresh is in flight at its third read, begun with no other in flight,
\* while a mutator called since awaits its write; loading is true.
C18_Witness ==
    \E p \in Slots :
        /\ InFetch(call[p]) /\ call[p].latest /\ lastFetch.clean
        /\ call[p].k = 3 /\ started > 1
        /\ \E q \in Slots \ {p} : call[q].pc = "writing"
        /\ loading

\* The user of session s, null when there is none.
UserOf(s) == IF s = NoSession THEN "null" ELSE s.user

\* C14: the step in which the initial session read resolves sets the user
\* value to the user of the session it read, so a provider mounted while the
\* remote holds a user's session, the read succeeding, has that user after
\* one update and with no event pushed; the delivery of a session-change
\* event sets the user value to that event's session user, or to null when
\* the event carries no session; and nothing else changes the user value.
C14_InitialReadThenEvents ==
    /\ [](getSession.pc = "done" /\ ~getSession.error /\ issued = 0 =>
            user = UserOf(session) /\ setCalls = 1)
    /\ [][/\ (getSession.pc = "resolved" /\ getSession'.pc = "done") =>
                user' = UserOf(getSession.data.session)
          /\ Len(events') < Len(events) =>
                user' = UserOf(events[1]) /\ events' = Tail(events)
          /\ user' # user =>
                \/ getSession.pc = "resolved" /\ getSession'.pc = "done"
                \/ Len(events') < Len(events)]_vars

\* The provider was mounted with a session of alice: the user value is alice
\* after the initial read alone, no event pushed.
C14_Witness ==
    /\ provider = "yes" /\ getSession.pc = "done"
    /\ issued = 0 /\ events = <<>> /\ setCalls = 1
    /\ session.present /\ user = "alice"

\* C15: once the provider is torn down, setUser is never called and the user
\* value never changes, whatever was pending at teardown.
C15_NoUpdateAfterTeardown ==
    [][provider = "torn" => setCalls' = setCalls /\ user' = user]_vars

\* C19: once the initial session read has resolved and the events issued to
\* the subscribed listener have all been delivered, the user value is the
\* user of the remote's current session, or null when there is none.
C19_NoRegression ==
    (/\ getSession.pc = "done" /\ ~getSession.error
     /\ subscription = "active" /\ events = <<>>) =>
        user = UserOf(session)

====
